---- MODULE Spec2Model ----
(***************************************************************************)
(* Order-fulfilment saga: OrderWorkflow (order-processing/workflows) with  *)
(* its activities, retry policy, signal channels and approval timer.       *)
(*                                                                         *)
(* The workflow is one cooperative coroutine.  Every state of the model    *)
(* is a state in which the coroutine is suspended (on a Future.Get or in   *)
(* Selector.Select) or has returned; one workflow action is the code that  *)
(* runs from one suspension point to the next.  Signals, timer firings and *)
(* activity attempts happen between those runs.                            *)
(***************************************************************************)
EXTENDS Integers, Sequences, FiniteSets, TLC

(* ------------------------------ bounds -------------------------------- *)
MaxSignals == 3       \* signals delivered to one run
MaxStartDelay == 1    \* clock steps that pass before the approval wait

(* ------------------------- program constants -------------------------- *)
MaximumAttempts == 5
ApprovalWindow == 15
DefaultVersion == -1
CurrentVersion == 2

orderID == "ORDER-1"

NonRetryableErrorTypes == {"PermanentError", "ValidationError"}

Activities ==
    {"FetchInventorySnapshot", "FetchCustomerProfile", "FetchRecommendations",
     "ReserveStock", "ReleaseStock", "SendCancellationEmail", "ProcessPayment",
     "RefundPayment", "UpdateOrderStatus", "SendOrderConfirmation"}

(* Error types an attempt of the activity can end with: the ones the       *)
(* activity code returns ("error" is a plain fmt.Errorf), and for the      *)
(* activities whose code never fails the start-to-close timeout.           *)
ErrorTypes(op) ==
    CASE op = "ReserveStock"          -> {"error"}
      [] op = "ProcessPayment"        -> {"PaymentTransientError", "PermanentError"}
      [] op = "UpdateOrderStatus"     -> {"error"}
      [] op = "SendOrderConfirmation" -> {"error"}
      [] OTHER                        -> {"TimeoutError"}

(* Values a successful attempt can return (only the inventory check        *)
(* returns a value the workflow branches on).                              *)
ResultValues(op) == IF op = "FetchInventorySnapshot" THEN BOOLEAN ELSE {TRUE}

ItemA == [SKU |-> "A", Quantity |-> 2]

(* The order the run starts with, and the signal payloads: the k-th        *)
(* add-line-item signal of a run carries its own SKU, so that the order of *)
(* the appended items shows; quantities are whatever the sender puts.      *)
InitialItemChoices == {<<ItemA>>}
AddItemPayload(k) ==
    [SKU |-> <<"B", "C", "D", "E", "F", "G">>[k], Quantity |-> 2 - k]
ApprovalPayloads == {[ApprovedBy |-> "admin"]}
TimeoutReason == [Reason |-> "approval timeout"]
CancelPayloads == {[Reason |-> "user request"], TimeoutReason}

VARIABLES
    initialItems, \* the workflow's initialItems argument
    version,      \* result of workflow.GetVersion
    status,       \* types.OrderWorkflowStatus
    pc,           \* suspension point of the workflow coroutine
    fut,          \* activity futures: state, failed attempts of the pending or
                  \* failed execution, error of the last one, returned value
    calls,        \* activities scheduled by the workflow, in order
    reserveArgs,  \* items argument of the ReserveStock call
    emailArgs,    \* reason argument of the SendCancellationEmail call
    sigApprove,   \* buffered "approve-payment" signals
    sigCancel,    \* buffered "cancel-order" signals
    sigAddItem,   \* buffered "add-line-item" signals
    readyBranch,  \* branch chosen for the blocked selector, not yet run
    timerFut,     \* instant at which the blocked iteration's timer fires
    now,          \* clock, in minutes
    sent,         \* signals delivered so far, in arrival order
    ret,          \* the workflow's return: done, result, err
    stageLog,     \* the values assigned to status.Stage, in order
    queryReply    \* the last answer of the "get-status" query handler

vars == <<initialItems, version, status, pc, fut, calls, reserveArgs, emailArgs, sigApprove, sigCancel,
          sigAddItem, readyBranch, timerFut, now, sent, ret, stageLog, queryReply>>

NoBranch == [kind |-> "none", payload |-> [none |-> TRUE]]
NoError == [op |-> "", type |-> ""]
IdleFuture == [st |-> "idle", attempts |-> 0, err |-> "", val |-> FALSE]
NoReply == [none |-> TRUE]

(* Mutant: the recorded tag is that of the current version, always.        *)
VersionTagOfCurrent(v) == "v2"

(* Line 390: fmt.Sprintf("v%d", version).                                  *)
VersionTag(v) == IF v = DefaultVersion THEN "v-1" ELSE "v2"

Init ==
    /\ initialItems \in InitialItemChoices
    /\ version \in {DefaultVersion, CurrentVersion}
    /\ status = [OrderID |-> orderID,
                 Stage |-> "start",
                 Items |-> initialItems,
                 Reserved |-> FALSE,
                 PaymentApproved |-> FALSE,
                 Charged |-> FALSE,
                 Cancelled |-> FALSE,
                 LastError |-> "",
                 Enrichment |-> [CustomerTier |-> "", InventoryOk |-> FALSE,
                                 Recommendations |-> <<>>],
                 ApprovalDeadline |-> 0,
                 Version |-> VersionTag(version)]
    /\ pc = "start"
    /\ fut = [op \in Activities |-> IdleFuture]
    /\ calls = <<>>
    /\ reserveArgs = <<>>
    /\ emailArgs = ""
    /\ sigApprove = <<>>
    /\ sigCancel = <<>>
    /\ sigAddItem = <<>>
    /\ readyBranch = NoBranch
    /\ timerFut = 0
    /\ now = 0
    /\ sent = <<>>
    /\ ret = [done |-> FALSE, result |-> "", err |-> NoError]
    /\ stageLog = <<"start">>
    /\ queryReply = NoReply

(* ------------------------- activity invoker --------------------------- *)

Resolved(op) == fut[op].st \in {"ok", "failed"}

(* workflow.ExecuteActivity: schedule the activities ops (in order).       *)
ExecuteActivity(ops) ==
    /\ fut' = [op \in Activities |->
                 IF \E k \in 1..Len(ops) : ops[k] = op
                 THEN [st |-> "running", attempts |-> 0, err |-> "", val |-> FALSE]
                 ELSE fut[op]]
    /\ calls' = calls \o ops

(* Mutant: one more attempt than the policy's maximum is made.             *)
ShouldRetryOnceMore(attempt, errType) ==
    /\ attempt <= MaximumAttempts
    /\ errType \notin NonRetryableErrorTypes

(* Mutant: the error's type is not looked at.                              *)
ShouldRetryAnyError(attempt, errType) == attempt < MaximumAttempts

(* The retry policy: another attempt after a failed one?                   *)
ShouldRetry(attempt, errType) ==
    /\ attempt < MaximumAttempts
    /\ errType \notin NonRetryableErrorTypes

ActivitySucceeds(op) ==
    /\ fut[op].st = "running"
    /\ \E v \in ResultValues(op) :
         fut' = [fut EXCEPT ![op] = [st |-> "ok", attempts |-> 0, err |-> "", val |-> v]]
    /\ UNCHANGED <<queryReply, stageLog, initialItems, version, status, pc, calls, reserveArgs, emailArgs, sigApprove, sigCancel,
                   sigAddItem, readyBranch, timerFut, now, sent, ret>>

ActivityFails(op) ==
    /\ fut[op].st = "running"
    /\ \E e \in ErrorTypes(op) :
         LET attempt == fut[op].attempts + 1 IN
         fut' = [fut EXCEPT ![op] =
                   IF ShouldRetry(attempt, e)
                   THEN [@ EXCEPT !.attempts = attempt, !.err = e]
                   ELSE [st |-> "failed", attempts |-> attempt, err |-> e, val |-> FALSE]]
    /\ UNCHANGED <<queryReply, stageLog, initialItems, version, status, pc, calls, reserveArgs, emailArgs, sigApprove, sigCancel,
                   sigAddItem, readyBranch, timerFut, now, sent, ret>>

(* ----------------------------- workflow ------------------------------- *)

(* The step assigns the values of seq to status.Stage, in that order.      *)
LogStages(seq) == stageLog' = stageLog \o seq

Return(result, err) ==
    /\ ret' = [done |-> TRUE, result |-> result, err |-> err]
    /\ pc' = "done"

ErrorOf(op) == [op |-> op, type |-> fut[op].err]

(* Mutant: the lookups are run one after the other in every version.      *)
StartEnrichmentSequential ==
    /\ pc = "start"
    /\ status' = [status EXCEPT !.Stage = "enrichment"]
    /\ LogStages(<<"enrichment">>)
    /\ ExecuteActivity(<<"FetchInventorySnapshot">>)
    /\ pc' = "enrich-inventory"
    /\ UNCHANGED <<queryReply, initialItems, version, reserveArgs, emailArgs, sigApprove, sigCancel,
                   sigAddItem, readyBranch, timerFut, now, sent, ret>>

(* Lines 393-443: options, query handlers, signal channels, then the       *)
(* enrichment activities are scheduled and the first Get suspends.         *)
StartEnrichment ==
    /\ pc = "start"
    /\ status' = [status EXCEPT !.Stage = "enrichment"]
    /\ LogStages(<<"enrichment">>)
    /\ IF version = DefaultVersion
          THEN ExecuteActivity(<<"FetchInventorySnapshot">>)
          ELSE ExecuteActivity(<<"FetchInventorySnapshot", "FetchCustomerProfile",
                                 "FetchRecommendations">>)
    /\ pc' = "enrich-inventory"
    /\ UNCHANGED <<queryReply, initialItems, version, reserveArgs, emailArgs, sigApprove, sigCancel, sigAddItem,
                   readyBranch, timerFut, now, sent, ret>>

(* Mutant: the reservation is made whatever the inventory check said.      *)
CheckInventoryAndReserveAnyway(st) ==
    /\ status' = [st EXCEPT !.Stage = "reserve"]
    /\ LogStages(<<"reserve">>)
    /\ ExecuteActivity(<<"ReserveStock">>)
    /\ reserveArgs' = st.Items
    /\ UNCHANGED emailArgs
    /\ pc' = "reserve"
    /\ UNCHANGED ret

(* Lines 464-472: the inventory verdict, then ReserveStock is scheduled.   *)
CheckInventoryAndReserve(st) ==
    IF ~st.Enrichment.InventoryOk
    THEN /\ status' = [st EXCEPT !.LastError = "insufficient inventory"]
         /\ Return("", [op |-> "OrderWorkflow", type |-> "insufficient inventory"])
         /\ UNCHANGED <<fut, calls, reserveArgs, emailArgs, stageLog>>
    ELSE /\ status' = [st EXCEPT !.Stage = "reserve"]
         /\ LogStages(<<"reserve">>)
         /\ ExecuteActivity(<<"ReserveStock">>)
         /\ reserveArgs' = st.Items
         /\ UNCHANGED emailArgs
         /\ pc' = "reserve"
         /\ UNCHANGED ret

(* fInventory.Get returns (both branches, lines 434-438 and 449-451).      *)
InventoryFetched ==
    /\ pc = "enrich-inventory"
    /\ Resolved("FetchInventorySnapshot")
    /\ IF fut["FetchInventorySnapshot"].st = "failed"
          THEN /\ Return("", ErrorOf("FetchInventorySnapshot"))
               /\ UNCHANGED <<stageLog, status, fut, calls, reserveArgs, emailArgs>>
          ELSE IF version = DefaultVersion
          THEN CheckInventoryAndReserve(
                 [status EXCEPT !.Enrichment.InventoryOk =
                                   fut["FetchInventorySnapshot"].val])
          ELSE /\ pc' = "enrich-customer"
               /\ UNCHANGED <<stageLog, status, fut, calls, reserveArgs, emailArgs, ret>>
    /\ UNCHANGED <<queryReply, initialItems, version, sigApprove, sigCancel, sigAddItem, readyBranch, timerFut, now, sent>>

(* Mutant: the customer lookup's error is dropped.                         *)
CustomerFetchedIgnoresError ==
    /\ pc = "enrich-customer"
    /\ Resolved("FetchCustomerProfile")
    /\ pc' = "enrich-recs"
    /\ UNCHANGED <<queryReply, stageLog, initialItems, version, status, fut, calls, reserveArgs, emailArgs, sigApprove,
                   sigCancel, sigAddItem, readyBranch, timerFut, now, sent, ret>>

(* fCustomer.Get returns (lines 452-454).                                   *)
CustomerFetched ==
    /\ pc = "enrich-customer"
    /\ Resolved("FetchCustomerProfile")
    /\ IF fut["FetchCustomerProfile"].st = "failed"
          THEN Return("", ErrorOf("FetchCustomerProfile"))
          ELSE pc' = "enrich-recs" /\ UNCHANGED ret
    /\ UNCHANGED <<queryReply, stageLog, initialItems, version, status, fut, calls, reserveArgs, emailArgs, sigApprove, sigCancel,
                   sigAddItem, readyBranch, timerFut, now, sent>>

(* fRecs.Get returns (lines 455-462).                                       *)
RecommendationsFetched ==
    /\ pc = "enrich-recs"
    /\ Resolved("FetchRecommendations")
    /\ IF fut["FetchRecommendations"].st = "failed"
          THEN /\ Return("", ErrorOf("FetchRecommendations"))
               /\ UNCHANGED <<stageLog, status, fut, calls, reserveArgs, emailArgs>>
          ELSE CheckInventoryAndReserve(
                 [status EXCEPT !.Enrichment =
                    [CustomerTier |-> "Gold",
                     InventoryOk |-> fut["FetchInventorySnapshot"].val,
                     Recommendations |-> <<"Product-A", "Product-B", "Product-C">>]])
    /\ UNCHANGED <<queryReply, initialItems, version, sigApprove, sigCancel, sigAddItem, readyBranch, timerFut, now, sent>>

(* ------------------------ approval wait loop -------------------------- *)

OnApprove(st, payload) == [st EXCEPT !.PaymentApproved = TRUE]

(* Mutant: the cancel handler does not record the reason.                  *)
OnCancelDropsReason(st, payload) == [st EXCEPT !.Cancelled = TRUE]

OnCancel(st, payload) ==
    [st EXCEPT !.Cancelled = TRUE, !.LastError = "cancelled: " \o payload.Reason]

(* Mutant: the new item is put in front of the others.                     *)
OnAddItemPrepends(st, item) == [st EXCEPT !.Items = <<item>> \o @]

(* Mutant: adding an item also writes lastError.                           *)
OnAddItemTouchesError(st, item) ==
    [st EXCEPT !.Items = Append(@, item), !.LastError = "item added"]

(* Mutant: adding an item grants a new approval window.                    *)
OnAddItemExtendsDeadline(st, item) ==
    [st EXCEPT !.Items = Append(@, item), !.ApprovalDeadline = @ + ApprovalWindow]

OnAddItem(st, item) == [st EXCEPT !.Items = Append(@, item)]

(* Mutant: the timer handler approves the payment instead of cancelling.   *)
OnTimerApproves(st) == [st EXCEPT !.PaymentApproved = TRUE]

(* Mutant: the timer handler cancels without recording why.                *)
OnTimerKeepsError(st) == [st EXCEPT !.Cancelled = TRUE]

OnTimer(st) == [st EXCEPT !.Cancelled = TRUE, !.LastError = "approval timeout"]

RunBranch(st, b) ==
    CASE b.kind = "approve"  -> OnApprove(st, b.payload)
      [] b.kind = "cancel"   -> OnCancel(st, b.payload)
      [] b.kind = "add-item" -> OnAddItem(st, b.payload)
      [] b.kind = "timer"    -> OnTimer(st)

(* time.Until(approvalTimeout), the duration given to each iteration's     *)
(* timer (the wall clock is taken to agree with the workflow clock).       *)
TimeUntil(deadline, t) == deadline - t

(* Line 485: the loop condition.                                           *)
LoopCondition(st) == ~st.PaymentApproved /\ ~st.Cancelled

(* Mutant: Select looks at the timer before the channels.                  *)
SelectCaseTimerFirst(a, c, i, d) ==
    IF d <= 0 THEN "timer"
    ELSE IF a # <<>> THEN "approve"
    ELSE IF c # <<>> THEN "cancel"
    ELSE IF i # <<>> THEN "add-item"
    ELSE "none"

(* Select with channel contents a, c, i and a timer of duration d: the     *)
(* first ready case in the order the cases were added (lines 489-515):     *)
(* approve, cancel, add item, timer.  A timer of no positive duration is   *)
(* ready at once.                                                          *)
SelectCase(a, c, i, d) ==
    IF a # <<>> THEN "approve"
    ELSE IF c # <<>> THEN "cancel"
    ELSE IF i # <<>> THEN "add-item"
    ELSE IF d <= 0 THEN "timer"
    ELSE "none"

(* The for loop of lines 485-518 at time t, run until Select finds no      *)
(* ready case or the loop condition fails.  Each iteration creates its     *)
(* timer with the time left until the deadline.                            *)
RECURSIVE ApprovalLoop(_, _, _, _, _)
ApprovalLoop(st, a, c, i, t) ==
    LET d == TimeUntil(st.ApprovalDeadline, t)
        k == SelectCase(a, c, i, d)
    IN
    IF ~LoopCondition(st)
    THEN [status |-> st, a |-> a, c |-> c, i |-> i, blocked |-> FALSE, timer |-> 0]
    ELSE CASE k = "approve"  -> ApprovalLoop(OnApprove(st, Head(a)), Tail(a), c, i, t)
           [] k = "cancel"   -> ApprovalLoop(OnCancel(st, Head(c)), a, Tail(c), i, t)
           [] k = "add-item" -> ApprovalLoop(OnAddItem(st, Head(i)), a, c, Tail(i), t)
           [] k = "timer"    -> ApprovalLoop(OnTimer(st), a, c, i, t)
           [] OTHER -> [status |-> st, a |-> a, c |-> c, i |-> i,
                        blocked |-> TRUE, timer |-> t + d]

(* Mutant: the cancellation check after the loop is missing.               *)
CancelCheckMissing(st) == FALSE

(* Line 520: the branch taken when the loop is left.                       *)
CancelledAfterWait(st) == st.Cancelled

(* Run the loop from state st, reached by assigning the stages entered;    *)
(* then lines 520-530: on cancellation the     *)
(* release is scheduled, on approval the payment.                          *)
AwaitApproval(st, entered) ==
    LET r == ApprovalLoop(st, sigApprove, sigCancel, sigAddItem, now) IN
    /\ sigApprove' = r.a
    /\ sigCancel' = r.c
    /\ sigAddItem' = r.i
    /\ readyBranch' = NoBranch
    /\ timerFut' = r.timer
    /\ IF r.blocked
          THEN /\ status' = r.status
               /\ pc' = "select"
               /\ LogStages(entered)
               /\ UNCHANGED <<fut, calls>>
          ELSE IF CancelledAfterWait(r.status)
          THEN /\ status' = r.status
               /\ LogStages(entered)
               /\ ExecuteActivity(<<"ReleaseStock">>)
               /\ pc' = "cancel-release"
          ELSE /\ status' = [r.status EXCEPT !.Stage = "payment"]
               /\ LogStages(entered \o <<"payment">>)
               /\ ExecuteActivity(<<"ProcessPayment">>)
               /\ pc' = "payment"

(* ReserveStock's Get returns (lines 472-483), and the loop is entered.    *)
StockReserved ==
    /\ pc = "reserve"
    /\ Resolved("ReserveStock")
    /\ IF fut["ReserveStock"].st = "failed"
          THEN /\ status' = [status EXCEPT !.LastError =
                               "reserve failed: " \o fut["ReserveStock"].err]
               /\ Return("", ErrorOf("ReserveStock"))
               /\ UNCHANGED <<fut, calls, sigApprove, sigCancel, sigAddItem, readyBranch,
                              timerFut, stageLog>>
          ELSE /\ AwaitApproval([status EXCEPT !.Reserved = TRUE,
                                               !.Stage = "awaiting-approval",
                                               !.ApprovalDeadline = now + ApprovalWindow],
                                <<"awaiting-approval">>)
               /\ UNCHANGED ret
    /\ UNCHANGED <<queryReply, initialItems, version, reserveArgs, emailArgs, now, sent>>

(* The blocked Select returns: the branch that became ready first runs,    *)
(* then the loop goes on.                                                  *)
SelectReturns ==
    /\ pc = "select"
    /\ readyBranch.kind # "none"
    /\ AwaitApproval(RunBranch(status, readyBranch), <<>>)
    /\ UNCHANGED <<queryReply, initialItems, version, reserveArgs, emailArgs, now, sent, ret>>

(* -------------------- cancellation and forward steps ------------------ *)

(* Mutant: the cancellation path also refunds a payment never taken.       *)
CancelStockReleasedRefunds ==
    /\ pc = "cancel-release"
    /\ Resolved("ReleaseStock")
    /\ ExecuteActivity(<<"RefundPayment", "SendCancellationEmail">>)
    /\ emailArgs' = status.LastError
    /\ pc' = "cancel-email"
    /\ UNCHANGED <<queryReply, stageLog, initialItems, version, status, reserveArgs, sigApprove, sigCancel,
                   sigAddItem, readyBranch, timerFut, now, sent, ret>>

(* Lines 522-523: ReleaseStock's Get returns, its error is dropped.        *)
CancelStockReleased ==
    /\ pc = "cancel-release"
    /\ Resolved("ReleaseStock")
    /\ ExecuteActivity(<<"SendCancellationEmail">>)
    /\ emailArgs' = status.LastError
    /\ pc' = "cancel-email"
    /\ UNCHANGED <<queryReply, stageLog, initialItems, version, status, reserveArgs, sigApprove, sigCancel, sigAddItem,
                   readyBranch, timerFut, now, sent, ret>>

(* Mutant: the run waits for a cancellation email that went out.          *)
CancellationEmailSentWaits ==
    /\ pc = "cancel-email"
    /\ fut["SendCancellationEmail"].st = "ok"
    /\ status' = [status EXCEPT !.Stage = "cancelled"]
    /\ LogStages(<<"cancelled">>)
    /\ Return("Order " \o orderID \o " cancelled (" \o status.LastError \o ")", NoError)
    /\ UNCHANGED <<queryReply, initialItems, version, fut, calls, reserveArgs, emailArgs,
                   sigApprove, sigCancel, sigAddItem, readyBranch, timerFut, now, sent>>

(* Mutant: a failed cancellation email is returned as the run's error.     *)
CancellationEmailSentEscalates ==
    /\ pc = "cancel-email"
    /\ Resolved("SendCancellationEmail")
    /\ status' = [status EXCEPT !.Stage = "cancelled"]
    /\ LogStages(<<"cancelled">>)
    /\ IF fut["SendCancellationEmail"].st = "failed"
          THEN Return("", ErrorOf("SendCancellationEmail"))
          ELSE Return("Order " \o orderID \o " cancelled (" \o status.LastError \o ")",
                      NoError)
    /\ UNCHANGED <<queryReply, initialItems, version, fut, calls, reserveArgs, emailArgs,
                   sigApprove, sigCancel, sigAddItem, readyBranch, timerFut, now, sent>>

(* Lines 523-525.                                                           *)
CancellationEmailSent ==
    /\ pc = "cancel-email"
    /\ Resolved("SendCancellationEmail")
    /\ status' = [status EXCEPT !.Stage = "cancelled"]
    /\ LogStages(<<"cancelled">>)
    /\ Return("Order " \o orderID \o " cancelled (" \o status.LastError \o ")", NoError)
    /\ UNCHANGED <<queryReply, initialItems, version, fut, calls, reserveArgs, emailArgs, sigApprove, sigCancel, sigAddItem,
                   readyBranch, timerFut, now, sent>>

(* Mutant: after the payment the stage jumps to the notification.          *)
MarkChargedSkipsAhead(st) == [st EXCEPT !.Charged = TRUE, !.Stage = "notify"]

(* Mutant: the charged flag is not set after the payment.                  *)
MarkChargedForgets(st) == [st EXCEPT !.Stage = "status-update"]

(* Lines 538-542: the payment succeeded.                                   *)
MarkCharged(st) == [st EXCEPT !.Charged = TRUE, !.Stage = "status-update"]

(* Line 532.                                                               *)
PaymentFailed(st) ==
    [st EXCEPT !.LastError = "payment failed: " \o fut["ProcessPayment"].err]

(* Mutant: a failed payment returns its error without releasing the stock. *)
PaymentProcessedNoRelease ==
    /\ pc = "payment"
    /\ Resolved("ProcessPayment")
    /\ IF fut["ProcessPayment"].st = "failed"
          THEN /\ status' = PaymentFailed(status)
               /\ UNCHANGED stageLog
               /\ Return("", ErrorOf("ProcessPayment"))
               /\ UNCHANGED <<fut, calls>>
          ELSE /\ status' = MarkCharged(status)
               /\ LogStages(<<status'.Stage>>)
               /\ ExecuteActivity(<<"UpdateOrderStatus">>)
               /\ pc' = "status-update"
               /\ UNCHANGED ret
    /\ UNCHANGED <<queryReply, initialItems, version, reserveArgs, emailArgs, sigApprove, sigCancel,
                   sigAddItem, readyBranch, timerFut, now, sent>>

(* Mutant: after a payment, a further buffered approval is charged again.  *)
PaymentProcessedPerApproval ==
    /\ pc = "payment"
    /\ Resolved("ProcessPayment")
    /\ IF fut["ProcessPayment"].st = "failed"
          THEN /\ status' = PaymentFailed(status)
               /\ UNCHANGED stageLog
               /\ ExecuteActivity(<<"ReleaseStock">>)
               /\ pc' = "payment-release"
               /\ UNCHANGED sigApprove
          ELSE IF sigApprove # <<>>
          THEN /\ status' = [status EXCEPT !.Charged = TRUE]
               /\ UNCHANGED stageLog
               /\ sigApprove' = Tail(sigApprove)
               /\ ExecuteActivity(<<"ProcessPayment">>)
               /\ pc' = "payment"
          ELSE /\ status' = MarkCharged(status)
               /\ LogStages(<<status'.Stage>>)
               /\ ExecuteActivity(<<"UpdateOrderStatus">>)
               /\ pc' = "status-update"
               /\ UNCHANGED sigApprove
    /\ UNCHANGED <<queryReply, initialItems, version, reserveArgs, emailArgs, sigCancel, sigAddItem,
                   readyBranch, timerFut, now, sent, ret>>

(* Lines 530-543: ProcessPayment's Get returns.                            *)
PaymentProcessed ==
    /\ pc = "payment"
    /\ Resolved("ProcessPayment")
    /\ IF fut["ProcessPayment"].st = "failed"
          THEN /\ status' = PaymentFailed(status)
               /\ UNCHANGED stageLog
               /\ ExecuteActivity(<<"ReleaseStock">>)
               /\ pc' = "payment-release"
          ELSE /\ status' = MarkCharged(status)
               /\ LogStages(<<status'.Stage>>)
               /\ ExecuteActivity(<<"UpdateOrderStatus">>)
               /\ pc' = "status-update"
    /\ UNCHANGED <<queryReply, initialItems, version, reserveArgs, emailArgs, sigApprove, sigCancel,
                   sigAddItem, readyBranch, timerFut, now, sent, ret>>

(* Lines 535-536: the release after a failed payment returns.              *)
PaymentFailureCompensated ==
    /\ pc = "payment-release"
    /\ Resolved("ReleaseStock")
    /\ Return("", ErrorOf("ProcessPayment"))
    /\ UNCHANGED <<queryReply, stageLog, initialItems, version, status, fut, calls, reserveArgs, emailArgs, sigApprove, sigCancel,
                   sigAddItem, readyBranch, timerFut, now, sent>>

(* Mutant: the failed status update takes the charge back in the status.   *)
StatusUpdateFailedUncharges(st) ==
    [st EXCEPT !.LastError = "status update failed: " \o fut["UpdateOrderStatus"].err,
               !.Charged = FALSE]

(* Line 545.                                                               *)
StatusUpdateFailed(st) ==
    [st EXCEPT !.LastError = "status update failed: " \o fut["UpdateOrderStatus"].err]

(* Mutant: the refund and the release are started together, and only the   *)
(* release is awaited.                                                     *)
StatusUpdatedCompensatesInParallel ==
    /\ pc = "status-update"
    /\ Resolved("UpdateOrderStatus")
    /\ IF fut["UpdateOrderStatus"].st = "failed"
          THEN /\ status' = StatusUpdateFailed(status)
               /\ UNCHANGED stageLog
               /\ ExecuteActivity(<<"RefundPayment", "ReleaseStock">>)
               /\ pc' = "status-release"
          ELSE /\ status' = [status EXCEPT !.Stage = "notify"]
               /\ LogStages(<<"notify">>)
               /\ ExecuteActivity(<<"SendOrderConfirmation">>)
               /\ pc' = "notify"
    /\ UNCHANGED <<queryReply, initialItems, version, reserveArgs, emailArgs, sigApprove, sigCancel,
                   sigAddItem, readyBranch, timerFut, now, sent, ret>>

(* Lines 543-555: UpdateOrderStatus's Get returns.                         *)
StatusUpdated ==
    /\ pc = "status-update"
    /\ Resolved("UpdateOrderStatus")
    /\ IF fut["UpdateOrderStatus"].st = "failed"
          THEN /\ status' = StatusUpdateFailed(status)
               /\ UNCHANGED stageLog
               /\ ExecuteActivity(<<"RefundPayment">>)
               /\ pc' = "refund"
          ELSE /\ status' = [status EXCEPT !.Stage = "notify"]
               /\ LogStages(<<"notify">>)
               /\ ExecuteActivity(<<"SendOrderConfirmation">>)
               /\ pc' = "notify"
    /\ UNCHANGED <<queryReply, initialItems, version, reserveArgs, emailArgs, sigApprove, sigCancel, sigAddItem,
                   readyBranch, timerFut, now, sent, ret>>

(* Mutant: after the refund the error is returned, the stock not released. *)
PaymentRefundedNoRelease ==
    /\ pc = "refund"
    /\ Resolved("RefundPayment")
    /\ Return("", ErrorOf("UpdateOrderStatus"))
    /\ UNCHANGED <<queryReply, stageLog, initialItems, version, status, fut, calls, reserveArgs, emailArgs, sigApprove,
                   sigCancel, sigAddItem, readyBranch, timerFut, now, sent>>

(* Mutant: a failed refund ends the unwind and is returned.                *)
PaymentRefundedAborts ==
    /\ pc = "refund"
    /\ Resolved("RefundPayment")
    /\ IF fut["RefundPayment"].st = "failed"
          THEN /\ Return("", ErrorOf("RefundPayment"))
               /\ UNCHANGED <<fut, calls>>
          ELSE /\ ExecuteActivity(<<"ReleaseStock">>)
               /\ pc' = "status-release"
               /\ UNCHANGED ret
    /\ UNCHANGED <<queryReply, stageLog, initialItems, version, status, reserveArgs, emailArgs, sigApprove,
                   sigCancel, sigAddItem, readyBranch, timerFut, now, sent>>

(* Lines 548-549: the refund's Get returns, the release is scheduled.      *)
PaymentRefunded ==
    /\ pc = "refund"
    /\ Resolved("RefundPayment")
    /\ ExecuteActivity(<<"ReleaseStock">>)
    /\ pc' = "status-release"
    /\ UNCHANGED <<queryReply, stageLog, initialItems, version, status, reserveArgs, emailArgs, sigApprove, sigCancel, sigAddItem,
                   readyBranch, timerFut, now, sent, ret>>

(* Lines 549-550.                                                           *)
StatusFailureCompensated ==
    /\ pc = "status-release"
    /\ Resolved("ReleaseStock")
    /\ Return("", ErrorOf("UpdateOrderStatus"))
    /\ UNCHANGED <<queryReply, stageLog, initialItems, version, status, fut, calls, reserveArgs, emailArgs, sigApprove, sigCancel,
                   sigAddItem, readyBranch, timerFut, now, sent>>

(* Mutant: a failed confirmation is returned as the workflow's error.      *)
ConfirmationSentEscalates ==
    /\ pc = "notify"
    /\ Resolved("SendOrderConfirmation")
    /\ IF fut["SendOrderConfirmation"].st = "failed"
          THEN /\ status' = [status EXCEPT !.LastError = "confirmation failed: error"]
               /\ UNCHANGED stageLog
               /\ Return("", ErrorOf("SendOrderConfirmation"))
          ELSE /\ status' = [status EXCEPT !.Stage = "completed"]
               /\ LogStages(<<"completed">>)
               /\ Return("Order " \o orderID \o " completed (version " \o status.Version \o ")",
                         NoError)
    /\ UNCHANGED <<queryReply, initialItems, version, fut, calls, reserveArgs, emailArgs, sigApprove,
                   sigCancel, sigAddItem, readyBranch, timerFut, now, sent>>

(* Lines 555-566: the confirmation's Get returns; its failure is recorded  *)
(* and the workflow completes.                                             *)
ConfirmationSent ==
    /\ pc = "notify"
    /\ Resolved("SendOrderConfirmation")
    /\ status' = [status EXCEPT
                    !.LastError = IF fut["SendOrderConfirmation"].st = "failed"
                                  THEN "confirmation failed: " \o fut["SendOrderConfirmation"].err
                                  ELSE @,
                    !.Stage = "completed"]
    /\ LogStages(<<"completed">>)
    /\ Return("Order " \o orderID \o " completed (version " \o status.Version \o ")", NoError)
    /\ UNCHANGED <<queryReply, initialItems, version, fut, calls, reserveArgs, emailArgs, sigApprove, sigCancel, sigAddItem,
                   readyBranch, timerFut, now, sent>>

(* --------------------------- environment ------------------------------ *)

(* Where the run is relative to the approval wait when a signal arrives.   *)
Phase(stage) ==
    IF stage \in {"start", "enrichment", "reserve"} THEN "before"
    ELSE IF stage = "awaiting-approval" THEN "during"
    ELSE "after"

SentCount(kind) == Cardinality({k \in 1..Len(sent) : sent[k].kind = kind})

(* Mutant: a signal runs its handler on arrival, wherever the workflow is. *)
DeliverRunsHandler(kind, payload) ==
    /\ ~ret.done
    /\ Len(sent) < MaxSignals
    /\ sent' = Append(sent, [kind |-> kind, payload |-> payload, phase |-> Phase(status.Stage),
                             charged |-> status.Charged])
    /\ status' = RunBranch(status, [kind |-> kind, payload |-> payload])
    /\ UNCHANGED <<stageLog, queryReply, initialItems, version, pc, fut, calls, reserveArgs, emailArgs, sigApprove, sigCancel,
                   sigAddItem, readyBranch, timerFut, now, ret>>

(* Mutant: a signal sent to a run that has returned still runs its         *)
(* handler.                                                                *)
DeliverAfterReturn(kind, payload) ==
    /\ Len(sent) < MaxSignals
    /\ sent' = Append(sent, [kind |-> kind, payload |-> payload,
                             phase |-> IF ret.done THEN "closed" ELSE Phase(status.Stage),
                             charged |-> status.Charged])
    /\ IF ret.done
          THEN /\ status' = RunBranch(status, [kind |-> kind, payload |-> payload])
               /\ UNCHANGED <<sigApprove, sigCancel, sigAddItem, readyBranch>>
          ELSE IF pc = "select" /\ readyBranch.kind = "none"
          THEN /\ readyBranch' = [kind |-> kind, payload |-> payload]
               /\ UNCHANGED <<status, sigApprove, sigCancel, sigAddItem>>
          ELSE /\ sigApprove' = IF kind = "approve" THEN Append(sigApprove, payload) ELSE sigApprove
               /\ sigCancel' = IF kind = "cancel" THEN Append(sigCancel, payload) ELSE sigCancel
               /\ sigAddItem' = IF kind = "add-item" THEN Append(sigAddItem, payload) ELSE sigAddItem
               /\ UNCHANGED <<status, readyBranch>>
    /\ UNCHANGED <<queryReply, stageLog, initialItems, version, pc, fut, calls, reserveArgs, emailArgs,
                   timerFut, now, ret>>

(* A signal is sent to the run.  It reaches the open workflow, where it is *)
(* handed to the blocked selector if no branch is chosen yet and buffered  *)
(* in its channel otherwise; a run that has returned has no workflow left  *)
(* to receive it.                                                          *)
Deliver(kind, payload) ==
    /\ Len(sent) < MaxSignals
    /\ sent' = Append(sent, [kind |-> kind, payload |-> payload,
                             phase |-> IF ret.done THEN "closed" ELSE Phase(status.Stage),
                             charged |-> status.Charged])
    /\ IF ret.done
          THEN UNCHANGED <<sigApprove, sigCancel, sigAddItem, readyBranch>>
          ELSE IF pc = "select" /\ readyBranch.kind = "none"
          THEN /\ readyBranch' = [kind |-> kind, payload |-> payload]
               /\ UNCHANGED <<sigApprove, sigCancel, sigAddItem>>
          ELSE /\ sigApprove' = IF kind = "approve" THEN Append(sigApprove, payload) ELSE sigApprove
               /\ sigCancel' = IF kind = "cancel" THEN Append(sigCancel, payload) ELSE sigCancel
               /\ sigAddItem' = IF kind = "add-item" THEN Append(sigAddItem, payload) ELSE sigAddItem
               /\ UNCHANGED readyBranch
    /\ UNCHANGED <<queryReply, stageLog, initialItems, version, status, pc, fut, calls, reserveArgs, emailArgs, timerFut, now, ret>>

SignalApprovePayment == \E p \in ApprovalPayloads : Deliver("approve", p)

SignalCancelOrder == \E p \in CancelPayloads : Deliver("cancel", p)

SignalAddLineItem == Deliver("add-item", AddItemPayload(SentCount("add-item") + 1))

(* The approval timer fires while Select is blocked.                       *)
TimerFires ==
    /\ pc = "select"
    /\ readyBranch.kind = "none"
    /\ now >= timerFut
    /\ readyBranch' = [kind |-> "timer", payload |-> [none |-> TRUE]]
    /\ UNCHANGED <<queryReply, stageLog, initialItems, version, status, pc, fut, calls, reserveArgs, emailArgs, sigApprove, sigCancel,
                   sigAddItem, timerFut, now, sent, ret>>

(* Time passes, ten minutes at a step: before the wait (bounded), and     *)
(* during it until the deadline is reached.                                *)
Tick ==
    /\ \/ pc \in {"start", "enrich-inventory", "enrich-customer", "enrich-recs", "reserve"}
          /\ now < 10 * MaxStartDelay
       \/ pc = "select" /\ now < status.ApprovalDeadline
    /\ now' = now + 10
    /\ UNCHANGED <<queryReply, stageLog, initialItems, version, status, pc, fut, calls, reserveArgs, emailArgs, sigApprove, sigCancel,
                   sigAddItem, readyBranch, timerFut, sent, ret>>

(* Mutant: the query handler leaves a trace in the status it reports.      *)
QueryGetStatusLeavesTrace ==
    /\ queryReply' = status
    /\ status' = [status EXCEPT !.LastError = "queried"]
    /\ UNCHANGED <<initialItems, version, pc, fut, calls, reserveArgs, emailArgs, sigApprove,
                   sigCancel, sigAddItem, readyBranch, timerFut, now, sent, ret, stageLog>>

(* The "get-status" query handler (lines 410-412) answers with the status. *)
QueryGetStatus ==
    /\ queryReply' = status
    /\ UNCHANGED <<initialItems, version, status, pc, fut, calls, reserveArgs, emailArgs, sigApprove,
                   sigCancel, sigAddItem, readyBranch, timerFut, now, sent, ret, stageLog>>

WorkflowStep ==
    \/ StartEnrichment
    \/ InventoryFetched
    \/ CustomerFetched
    \/ RecommendationsFetched
    \/ StockReserved
    \/ SelectReturns
    \/ CancelStockReleased
    \/ CancellationEmailSent
    \/ PaymentProcessed
    \/ PaymentFailureCompensated
    \/ StatusUpdated
    \/ PaymentRefunded
    \/ StatusFailureCompensated
    \/ ConfirmationSent

ActivityStep == \E op \in Activities : ActivitySucceeds(op) \/ ActivityFails(op)

Next ==
    \/ WorkflowStep
    \/ ActivityStep
    \/ SignalApprovePayment
    \/ SignalCancelOrder
    \/ SignalAddLineItem
    \/ TimerFires
    \/ Tick

Spec == Init /\ [][Next]_vars

(* The run with a client that also queries the status, at any point.      *)
QueryNext ==
    \/ Next
    \/ QueryGetStatus

QuerySpec == Init /\ [][QueryNext]_vars

(* Every attempt of an activity ends, the worker runs the workflow when it *)
(* can make progress, time passes and the timer fires.                     *)
FairSpec ==
    /\ Spec
    /\ WF_vars(WorkflowStep)
    /\ WF_vars(ActivityStep)
    /\ WF_vars(TimerFires)
    /\ WF_vars(Tick)

(* --------------------- observations used by the claims ---------------- *)

CallCount(op) == Cardinality({k \in 1..Len(calls) : calls[k] = op})
Called(op) == CallCount(op) > 0

(* Position of the first call of op (0 when it was never called).          *)
FirstCall(op) ==
    IF Called(op) THEN CHOOSE k \in 1..Len(calls) :
                         calls[k] = op /\ \A j \in 1..(k - 1) : calls[j] # op
    ELSE 0

NoOperationFailed == \A op \in Activities : fut[op].st # "failed"

ReturnedError == ret.done /\ ret.err # NoError

CompletedResult == "Order " \o orderID \o " completed (version " \o status.Version \o ")"
CancelledResult == "Order " \o orderID \o " cancelled (" \o status.LastError \o ")"

NoDecisionSent == SentCount("approve") = 0 /\ SentCount("cancel") = 0

Decided == status.PaymentApproved \/ status.Cancelled

(* This step is the arrival of a signal of one of the kinds.               *)
Arrives(kinds) == Len(sent') = Len(sent) + 1 /\ sent'[Len(sent')].kind \in kinds

(* ------------------------------ claims -------------------------------- *)

(* C1: a run that has returned, in which no external operation failed and  *)
(* the approval was processed (so inventory was reported available and no  *)
(* cancel or timeout came first), returned success with stage completed,   *)
(* reserved and charged true, cancelled false.                             *)
C1_HappyPathCompletes ==
    (ret.done /\ NoOperationFailed /\ status.PaymentApproved)
    => /\ ret.err = NoError
       /\ ret.result = CompletedResult
       /\ status.Stage = "completed"
       /\ status.Enrichment.InventoryOk
       /\ status.Reserved
       /\ status.Charged
       /\ ~status.Cancelled

C1_Witness ==
    /\ ret.done
    /\ NoOperationFailed
    /\ status.PaymentApproved
    /\ status.Stage = "completed"

(* C2: ProcessPayment is invoked only with reserved and paymentApproved    *)
(* true and cancelled false; charged implies paymentApproved, which        *)
(* implies reserved; a cancelled run never invokes ProcessPayment.         *)
C2_PaymentGuard ==
    /\ Called("ProcessPayment")
         => status.Reserved /\ status.PaymentApproved /\ ~status.Cancelled
    /\ status.Charged => status.PaymentApproved
    /\ status.PaymentApproved => status.Reserved
    /\ status.Cancelled => ~Called("ProcessPayment")

C2_Witness == Called("ProcessPayment") /\ status.Charged /\ Len(sigCancel) > 0

(* C3: once cancelled is set in the approval wait, the compensation has    *)
(* been started, and the run returns success with stage cancelled and      *)
(* lastError carrying the reason (the cancel signal's, or the timeout).    *)
C3_CancelReason ==
    \/ status.LastError = "approval timeout"
    \/ \E k \in 1..Len(sent) :
         /\ sent[k].kind = "cancel"
         /\ status.LastError = "cancelled: " \o sent[k].payload.Reason

C3_CancellationIsSuccess ==
    status.Cancelled
    => /\ Called("ReleaseStock")
       /\ C3_CancelReason
       /\ pc \in {"cancel-release", "cancel-email", "done"}
       /\ ret.done => /\ ret.err = NoError
                      /\ ret.result = CancelledResult
                      /\ status.Stage = "cancelled"
                      /\ Resolved("ReleaseStock")

C3_Witness ==
    /\ ret.done
    /\ status.Cancelled
    /\ status.LastError = "cancelled: user request"
    /\ fut["ReleaseStock"].st = "failed"

(* C4: a run that ends cancelled has invoked ReleaseStock exactly once and *)
(* RefundPayment never.                                                    *)
C4_CancelReleasesOnce ==
    (ret.done /\ status.Cancelled)
    => CallCount("ReleaseStock") = 1 /\ CallCount("RefundPayment") = 0

C4_Witness ==
    ret.done /\ status.Cancelled /\ status.Stage = "cancelled" /\ SentCount("cancel") > 0

C6_StatusFailureRefundsThenReleases ==
    (fut["UpdateOrderStatus"].st = "failed" /\ pc # "status-update")
    => /\ status.Charged
       /\ CallCount("RefundPayment") = 1
       /\ CallCount("ReleaseStock") <= 1
       /\ Called("ReleaseStock")
            => /\ Resolved("RefundPayment")
               /\ FirstCall("RefundPayment") < FirstCall("ReleaseStock")
       /\ ret.done => /\ CallCount("ReleaseStock") = 1
                      /\ Resolved("ReleaseStock")
                      /\ ret.err = [op |-> "UpdateOrderStatus", type |-> "error"]

C6_Witness ==
    /\ ret.done
    /\ fut["UpdateOrderStatus"].st = "failed"
    /\ calls[Len(calls)] = "ReleaseStock"
    /\ calls[Len(calls) - 1] = "RefundPayment"

(* C7: a run that returns an error has, before returning, invoked and      *)
(* awaited the reversal of every step that succeeded (ReleaseStock iff     *)
(* reserved, RefundPayment iff charged), each once, and in the reverse of  *)
(* the order in which the forward steps succeeded.                         *)
Reversal(op) == IF op = "ReserveStock" THEN "ReleaseStock" ELSE "RefundPayment"

IsSucceededForward(op) == op \in {"ReserveStock", "ProcessPayment"} /\ fut[op].st = "ok"

IsReversal(op) == op \in {"ReleaseStock", "RefundPayment"}

Reverse(seq) == [k \in 1..Len(seq) |-> seq[Len(seq) + 1 - k]]

C8_WindowElapsed ==
    /\ NoDecisionSent
    /\ status.Stage = "awaiting-approval"
    /\ now >= status.ApprovalDeadline

C8_TimedOut ==
    /\ status.Stage = "cancelled"
    /\ status.Cancelled
    /\ status.LastError = "approval timeout"
    /\ Called("ReleaseStock")
    /\ ~Called("ProcessPayment")

C8_TimeoutCancels ==
    /\ [](NoDecisionSent => ~Called("ProcessPayment"))
    /\ C8_WindowElapsed ~> (C8_TimedOut \/ ~NoDecisionSent)

C8_Witness == NoDecisionSent /\ C8_TimedOut /\ ret.done /\ SentCount("add-item") > 0

(* C9: however many approve-payment signals are delivered, the workflow    *)
(* invokes ProcessPayment at most once.                                    *)
C9_PaymentAtMostOnce == CallCount("ProcessPayment") <= 1

C9_Witness ==
    /\ SentCount("approve") >= 2
    /\ CallCount("ProcessPayment") = 1
    /\ ret.done
    /\ \E k \in 1..Len(sent) : sent[k].kind = "approve" /\ sent[k].phase = "before"
    /\ \E k \in 1..Len(sent) : sent[k].kind = "approve" /\ sent[k].phase = "after"

(* C10: when the signals of a run are add-line-item signals sent while     *)
(* stage = awaiting-approval, followed by approve-payment signals, and     *)
(* the approval has taken effect (ProcessPayment is invoked), items is the *)
(* initial items followed by the added items in the order sent.            *)
C10_AddsThenApprove ==
    \E n \in 1..Len(sent) :
       /\ n < Len(sent)
       /\ \A k \in 1..n : sent[k].kind = "add-item" /\ sent[k].phase = "during"
       /\ \A k \in (n + 1)..Len(sent) : sent[k].kind = "approve"

C10_AddedItems ==
    LET adds == SelectSeq(sent, LAMBDA m : m.kind = "add-item")
    IN [k \in 1..Len(adds) |-> adds[k].payload]

C10_ItemsAppliedBeforeApproval ==
    (Called("ProcessPayment") /\ C10_AddsThenApprove)
    => status.Items = initialItems \o C10_AddedItems

(* C11: paymentApproved and cancelled are never both true; once one is     *)
(* set, neither flag changes again, a recorded cancellation reason stays,  *)
(* no approve-payment or cancel-order signal is consumed any more, and the *)
(* arrival of such a signal changes nothing of the workflow and schedules  *)
(* no operation.                                                           *)
C11_DecisionKept ==
    Decided
    => /\ status'.PaymentApproved = status.PaymentApproved
       /\ status'.Cancelled = status.Cancelled
       /\ status.Cancelled => status'.LastError = status.LastError
       /\ Len(sigApprove') >= Len(sigApprove)
       /\ Len(sigCancel') >= Len(sigCancel)
       /\ Arrives({"approve", "cancel"})
            => UNCHANGED <<status, pc, fut, calls, readyBranch, ret>>

DecisionsSent == SelectSeq(sent, LAMBDA m : m.kind \in {"approve", "cancel"})

C12_ProcessedInReadyOrder ==
    (Decided /\ DecisionsSent # <<>> /\ DecisionsSent[1].kind = "cancel")
    => ~status.PaymentApproved

(* C13: a Select pass that starts with an approve-payment signal pending   *)
(* processes the approval, whether or not a cancel-order signal is pending *)
(* and the timer is ready: the payment is scheduled.  A pass that starts   *)
(* with a cancel-order signal and no approval pending records that         *)
(* signal's reason, whether or not the timer is ready.                     *)
C13_FreshPass ==
    \/ pc = "reserve" /\ fut["ReserveStock"].st = "ok"
    \/ pc = "select" /\ readyBranch.kind = "add-item"

C13_PassTaken ==
    (C13_FreshPass /\ status' # status)
    => /\ sigApprove # <<>>
            => /\ status'.PaymentApproved
               /\ ~status'.Cancelled
               /\ status'.LastError = status.LastError
               /\ sigCancel' = sigCancel
               /\ pc' = "payment"
               /\ calls' = Append(calls, "ProcessPayment")
       /\ (sigApprove = <<>> /\ sigCancel # <<>>)
            => /\ status'.Cancelled
               /\ ~status'.PaymentApproved
               /\ status'.LastError = "cancelled: " \o Head(sigCancel).Reason
               /\ pc' = "cancel-release"

C14_Outcome ==
    [Stage |-> status.Stage,
     Reserved |-> status.Reserved,
     PaymentApproved |-> status.PaymentApproved,
     Charged |-> status.Charged,
     Cancelled |-> status.Cancelled,
     LastError |-> status.LastError,
     result |-> ret.result,
     err |-> ret.err,
     ops |-> SelectSeq(calls, LAMBDA op : op \notin {"FetchInventorySnapshot",
                                "FetchCustomerProfile", "FetchRecommendations"})]

(* What a run ended by the timer leaves.                                   *)
C14_TimerOutcome ==
    [Stage |-> "cancelled",
     Reserved |-> TRUE,
     PaymentApproved |-> FALSE,
     Charged |-> FALSE,
     Cancelled |-> TRUE,
     LastError |-> "approval timeout",
     result |-> "Order " \o orderID \o " cancelled (approval timeout)",
     err |-> NoError,
     ops |-> <<"ReserveStock", "ReleaseStock", "SendCancellationEmail">>]

(* The cancelled runs whose cancel-order signals, if any, all carry the    *)
(* reason "approval timeout": ended by the timer or by such a signal.      *)
C14_TimeoutOrTimeoutCancel ==
    /\ ret.done
    /\ status.Cancelled
    /\ \A k \in 1..Len(sent) : sent[k].kind = "cancel" => sent[k].payload = TimeoutReason

(* C14 as stated: the two kinds of run end in the same state, result and   *)
(* operations.                                                             *)
C14_TimerIndistinguishable == C14_TimeoutOrTimeoutCancel => C14_Outcome = C14_TimerOutcome

(* C14 amended: they end with the same stage, flags, error and operations, *)
(* and at any point of the wait the two handlers leave the same state,     *)
(* except that the signal's lastError (and so the result text) carries the *)
(* prefix "cancelled: ".                                                   *)
C14_TimerLikeCancelUpToPrefix ==
    /\ pc = "select"
         => OnCancel(status, TimeoutReason)
              = [OnTimer(status) EXCEPT !.LastError = "cancelled: " \o @]
    /\ C14_TimeoutOrTimeoutCancel
         => /\ [C14_Outcome EXCEPT !.LastError = "", !.result = ""]
                 = [C14_TimerOutcome EXCEPT !.LastError = "", !.result = ""]
            /\ status.LastError \in {"approval timeout", "cancelled: approval timeout"}
            /\ ret.result = CancelledResult

C14_Witness ==
    /\ ret.done
    /\ status.LastError = "cancelled: approval timeout"
    /\ now < status.ApprovalDeadline

(* C15: a failed reversal does not stop the unwind or change the outcome.  *)
(* When UpdateOrderStatus failed and RefundPayment then failed, the        *)
(* release is still invoked and the status-update error is what the run    *)
(* returns; and whatever ReleaseStock does, a run that invoked it returns  *)
(* what its path determines: success when cancelled, else the payment      *)
(* error, else the status-update error.                                    *)
C15_ReversalFailureIgnored ==
    /\ (/\ fut["UpdateOrderStatus"].st = "failed"
        /\ fut["RefundPayment"].st = "failed"
        /\ pc # "refund")
       => /\ fut["RefundPayment"].attempts = MaximumAttempts
          /\ Called("ReleaseStock")
          /\ pc \in {"status-release", "done"}
          /\ ret.done => ret.err = ErrorOf("UpdateOrderStatus")
    /\ (ret.done /\ Called("ReleaseStock"))
       => /\ Resolved("ReleaseStock")
          /\ ret.err = IF status.Cancelled THEN NoError
                       ELSE IF fut["ProcessPayment"].st = "failed"
                       THEN ErrorOf("ProcessPayment")
                       ELSE ErrorOf("UpdateOrderStatus")
          /\ status.Cancelled => status.Stage = "cancelled" /\ ret.result = CancelledResult

C15_Witness ==
    /\ ret.done
    /\ fut["RefundPayment"].st = "failed"
    /\ fut["ReleaseStock"].st = "failed"
    /\ ret.err = [op |-> "UpdateOrderStatus", type |-> "error"]

(* C16: a failed SendOrderConfirmation leaves a completed, successful run  *)
(* (reserved, charged, no reversal invoked); every other forward operation *)
(* that failed makes the run return an error.                              *)
ForwardOperations ==
    {"FetchInventorySnapshot", "FetchCustomerProfile", "FetchRecommendations",
     "ReserveStock", "ProcessPayment", "UpdateOrderStatus", "SendOrderConfirmation"}

C16_ConfirmationNonFatal ==
    /\ (fut["SendOrderConfirmation"].st = "failed" /\ pc # "notify")
       => /\ ret.done
          /\ ret.err = NoError
          /\ ret.result = CompletedResult
          /\ status.Stage = "completed"
          /\ status.Reserved
          /\ status.Charged
          /\ ~Called("RefundPayment")
          /\ ~Called("ReleaseStock")
    /\ \A op \in ForwardOperations \ {"SendOrderConfirmation"} :
          (ret.done /\ fut[op].st = "failed") => ret.err # NoError

C16_Witness ==
    /\ ret.done
    /\ fut["SendOrderConfirmation"].st = "failed"
    /\ fut["SendOrderConfirmation"].attempts = MaximumAttempts
    /\ status.LastError = "confirmation failed: error"

(* C17: once an enrichment lookup or ReserveStock has failed, reserved is  *)
(* false and stays so, the approval wait is not entered, no reversal and   *)
(* no later forward operation is invoked (after a failed lookup not even   *)
(* ReserveStock), and what the run returns is the error of a failed one of *)
(* these operations.                                                       *)
Lookups == {"FetchInventorySnapshot", "FetchCustomerProfile", "FetchRecommendations"}

C17_FailedEarly == {op \in Lookups \cup {"ReserveStock"} : fut[op].st = "failed"}

C17_EarlyFailureNoCompensation ==
    C17_FailedEarly # {}
    => /\ ~status.Reserved
       /\ status.Stage \in {"enrichment", "reserve"}
       /\ pc \in {"enrich-inventory", "enrich-customer", "enrich-recs", "reserve", "done"}
       /\ \A op \in {"ReleaseStock", "RefundPayment", "SendCancellationEmail",
                      "ProcessPayment", "UpdateOrderStatus", "SendOrderConfirmation"} :
             ~Called(op)
       /\ C17_FailedEarly \cap Lookups # {} => ~Called("ReserveStock")
       /\ ret.done => \E op \in C17_FailedEarly : ret.err = ErrorOf(op)

C17_Witness ==
    /\ ret.done
    /\ fut["ReserveStock"].st = "failed"
    /\ fut["ReserveStock"].attempts = MaximumAttempts
    /\ ret.err = [op |-> "ReserveStock", type |-> "error"]
    /\ Len(sent) > 0

(* C18: when the lookups the version awaits have all succeeded and the     *)
(* inventory check reported false, the run has returned an error at stage  *)
(* enrichment with lastError "insufficient inventory", reserved false,     *)
(* and neither ReserveStock nor any reversal invoked.                      *)
C18_InventoryRefused ==
    /\ pc \notin {"start", "enrich-inventory", "enrich-customer", "enrich-recs"}
    /\ fut["FetchInventorySnapshot"].st = "ok"
    /\ ~fut["FetchInventorySnapshot"].val
    /\ \/ version = DefaultVersion
       \/ fut["FetchCustomerProfile"].st = "ok" /\ fut["FetchRecommendations"].st = "ok"

C18_InsufficientInventory ==
    C18_InventoryRefused
    => /\ ret.done
       /\ ret.err = [op |-> "OrderWorkflow", type |-> "insufficient inventory"]
       /\ ret.result = ""
       /\ status.Stage = "enrichment"
       /\ ~status.Enrichment.InventoryOk
       /\ status.LastError = "insufficient inventory"
       /\ ~status.Reserved
       /\ \A op \in {"ReserveStock", "ReleaseStock", "RefundPayment"} : ~Called(op)

C18_Witness ==
    /\ C18_InventoryRefused
    /\ version = CurrentVersion
    /\ status.LastError = "insufficient inventory"

(* C19: no execution of an operation, forward or reversal, has more than   *)
(* MaximumAttempts attempts: a pending execution has failed fewer times    *)
(* than that, and with the failure of the last attempt the execution is    *)
(* over and its error is what the workflow's Get receives.                 *)
C19_AttemptsBounded ==
    \A op \in Activities :
       /\ fut[op].attempts <= MaximumAttempts
       /\ fut[op].st = "running" => fut[op].attempts < MaximumAttempts
       /\ fut[op].attempts = MaximumAttempts
            => /\ fut[op].st = "failed"
               /\ fut[op].err \in ErrorTypes(op)
               /\ Resolved(op)

C19_Witness ==
    /\ ret.done
    /\ fut["ProcessPayment"].st = "failed"
    /\ fut["ProcessPayment"].attempts = MaximumAttempts
    /\ fut["ReleaseStock"].st = "failed"
    /\ fut["ReleaseStock"].attempts = MaximumAttempts

(* C20: an execution is never pending after an attempt that failed with a  *)
(* PermanentError or ValidationError: it has failed, with that error,      *)
(* after as many attempts as were made until then; an execution that       *)
(* failed with another error has used all its attempts.  A ProcessPayment  *)
(* that failed with a PermanentError is followed by the release of the     *)
(* stock and returned.                                                     *)
C20_NonRetryableStops ==
    /\ \A op \in Activities :
          /\ (fut[op].st = "running" /\ fut[op].attempts > 0)
               => fut[op].err \in ErrorTypes(op) \ NonRetryableErrorTypes
          /\ fut[op].st = "failed"
               => IF fut[op].err \in NonRetryableErrorTypes
                  THEN fut[op].attempts \in 1..MaximumAttempts
                  ELSE fut[op].attempts = MaximumAttempts
    /\ (/\ fut["ProcessPayment"].st = "failed"
        /\ fut["ProcessPayment"].err = "PermanentError"
        /\ pc # "payment")
       => /\ CallCount("ProcessPayment") = 1
          /\ Called("ReleaseStock")
          /\ ~status.Charged
          /\ ret.done => ret.err = [op |-> "ProcessPayment", type |-> "PermanentError"]

C20_Witness ==
    /\ ret.done
    /\ fut["ProcessPayment"].st = "failed"
    /\ fut["ProcessPayment"].err = "PermanentError"
    /\ fut["ProcessPayment"].attempts = 3
    /\ Resolved("ReleaseStock")

(* C21: a step that answers the get-status query answers with the current  *)
(* status, at whatever point of the run, and changes nothing else: no      *)
(* field of the status, no stage, no scheduled operation, no channel and   *)
(* no position of the workflow.                                            *)
C21_Answered == queryReply' # queryReply

C21_QueryIsPureRead ==
    [][C21_Answered
       => /\ queryReply' = status
          /\ UNCHANGED <<initialItems, version, status, pc, fut, calls, reserveArgs, emailArgs,
                         sigApprove, sigCancel, sigAddItem, readyBranch, timerFut, now,
                         sent, ret, stageLog>>]_vars

C21_Witness ==
    /\ ret.done
    /\ status.Stage = "completed"
    /\ queryReply = status

(* C22: the version is resolved before the enrichment begins, the tag      *)
(* recorded in the status is the tag of that version and never changes,    *)
(* and the enrichment that runs is the one of the recorded tag: the        *)
(* single inventory lookup for "v-1", the three lookups otherwise.         *)
C22_EnrichmentStarted == pc # "start"

C22_TagDesignatesBranch ==
    /\ status.Version = VersionTag(version)
    /\ status.Version \in {"v-1", "v2"}
    /\ C22_EnrichmentStarted
         => /\ calls[1] = "FetchInventorySnapshot"
            /\ status.Version = "v-1"
                 => ~Called("FetchCustomerProfile") /\ ~Called("FetchRecommendations")
            /\ status.Version = "v2"
                 => Called("FetchCustomerProfile") /\ Called("FetchRecommendations")

C22_VersionResolvedOnce ==
    /\ []C22_TagDesignatesBranch
    /\ [][version' = version /\ status'.Version = status.Version]_vars

C22_Witness ==
    /\ ret.done
    /\ status.Stage = "completed"
    /\ status.Version = "v-1"
    /\ Len(calls) = 5

(* C23: in the legacy version FetchInventorySnapshot is the only lookup    *)
(* invoked; in the current version the three lookups are all started       *)
(* before the first result is awaited, and ReserveStock is invoked only    *)
(* once the three of them have succeeded.                                  *)
C23_EnrichmentJoin ==
    /\ version = DefaultVersion
         => /\ ~Called("FetchCustomerProfile")
            /\ ~Called("FetchRecommendations")
            /\ Called("ReserveStock") => fut["FetchInventorySnapshot"].st = "ok"
    /\ (version # DefaultVersion /\ pc # "start")
         => /\ Len(calls) >= 3
            /\ SubSeq(calls, 1, 3) = <<"FetchInventorySnapshot", "FetchCustomerProfile",
                                       "FetchRecommendations">>
            /\ \A op \in Lookups : CallCount(op) = 1
            /\ Called("ReserveStock") => \A op \in Lookups : fut[op].st = "ok"
            /\ (\E op \in Lookups : fut[op].st = "running")
                 => pc \in {"enrich-inventory", "enrich-customer", "enrich-recs", "done"}

C23_Witness ==
    /\ version = CurrentVersion
    /\ pc = "enrich-inventory"
    /\ fut["FetchInventorySnapshot"].st = "running"
    /\ fut["FetchInventorySnapshot"].attempts > 0
    /\ fut["FetchCustomerProfile"].st = "ok"
    /\ fut["FetchRecommendations"].st = "ok"

(* C24: a run that has returned has a terminal stage: completed with the   *)
(* completion result, cancelled with a cancellation result, failed with an *)
(* error.                                                                  *)
C24_ReturnedRunsAreTerminal ==
    ret.done
    => status.Stage = IF ret.err # NoError THEN "failed"
                      ELSE IF ret.result = CompletedResult THEN "completed"
                      ELSE "cancelled"

(* C25: once the run has returned, no field of the status changes, no      *)
(* operation is invoked, and nothing of the workflow moves, whatever       *)
(* signals are sent to it.                                                 *)
C25_NothingAfterReturn ==
    [][ret.done
       => UNCHANGED <<status, calls, reserveArgs, emailArgs, pc, ret, stageLog, sigApprove,
                      sigCancel, sigAddItem, readyBranch, timerFut>>]_vars

C25_Witness ==
    /\ ret.done
    /\ Len(sent) = 3
    /\ \A k \in 1..3 : sent[k].phase = "closed"
    /\ {sent[k].kind : k \in 1..3} = {"approve", "cancel", "add-item"}

(* C26: the values assigned to stage along a run are, in order, a prefix   *)
(* of start, enrichment, reserve, awaiting-approval, payment,              *)
(* status-update, notify, completed, or the prefix up to awaiting-approval *)
(* followed by cancelled: nothing is skipped, entered twice or left        *)
(* backwards.                                                              *)
StageChain ==
    <<"start", "enrichment", "reserve", "awaiting-approval", "payment", "status-update",
      "notify", "completed">>

IsPrefix(a, b) == Len(a) <= Len(b) /\ SubSeq(b, 1, Len(a)) = a

C26_StagesInOrder ==
    /\ status.Stage = stageLog[Len(stageLog)]
    /\ \/ IsPrefix(stageLog, StageChain)
       \/ stageLog = SubSeq(StageChain, 1, 4) \o <<"cancelled">>

C26_Witness ==
    /\ stageLog = StageChain
    /\ ret.done
    /\ \E k \in 1..Len(sent) : sent[k].kind = "approve" /\ sent[k].phase = "before"

(* C27: reserved, paymentApproved, charged and cancelled only ever go from *)
(* false to true: a flag that is true stays true in every later step, also *)
(* after the step it stands for has been reversed.                         *)
C27_FlagsKept ==
    /\ status.Reserved => status'.Reserved
    /\ status.PaymentApproved => status'.PaymentApproved
    /\ status.Charged => status'.Charged
    /\ status.Cancelled => status'.Cancelled

C27_FlagsSetOnce ==
    /\ Init => (~status.Reserved /\ ~status.PaymentApproved /\ ~status.Charged
                /\ ~status.Cancelled)
    /\ [][C27_FlagsKept]_vars

C27_Witness ==
    /\ ret.done
    /\ ret.err # NoError
    /\ status.Reserved
    /\ status.Charged
    /\ fut["RefundPayment"].st = "ok"
    /\ fut["ReleaseStock"].st = "ok"

(* C28: items is always the initial items followed by the payloads of the  *)
(* first add-line-item signals that arrived, in arrival order; a step      *)
(* changes it only by appending, one item for each add-line-item signal it *)
(* consumes, and only in the approval wait (after awaiting-approval is     *)
(* entered and before payment is).                                         *)
C28_Consumed ==
    (Len(sigAddItem) + IF readyBranch.kind = "add-item" THEN 1 ELSE 0) - Len(sigAddItem')

C28_ItemsStep ==
    status'.Items # status.Items
    => /\ IsPrefix(status.Items, status'.Items)
       /\ Len(status'.Items) = Len(status.Items) + C28_Consumed
       /\ Len(stageLog) \in {3, 4}
       /\ Len(stageLog') >= 4
       /\ stageLog'[4] = "awaiting-approval"

C28_ItemsAppendOnly ==
    /\ [](/\ IsPrefix(initialItems, status.Items)
          /\ IsPrefix(SubSeq(status.Items, Len(initialItems) + 1, Len(status.Items)),
                      C10_AddedItems))
    /\ [][C28_ItemsStep]_vars

C28_Witness ==
    /\ status.Items = initialItems \o C10_AddedItems
    /\ Len(status.Items) = 3
    /\ \E k \in 1..Len(sent) : sent[k].kind = "add-item" /\ sent[k].phase = "before"
    /\ \E k \in 1..Len(sent) : sent[k].kind = "add-item" /\ sent[k].phase = "during"

(* C29: the add-line-item handler changes items and nothing else of the    *)
(* status and leaves the loop condition true; a step of the wait in which  *)
(* only add-line-item signals are pending and the timer is not due appends *)
(* them, schedules no operation and blocks in Select again.                *)
C29_OnlyItemsPending ==
    /\ pc = "select"
    /\ readyBranch.kind = "add-item"
    /\ sigApprove = <<>>
    /\ sigCancel = <<>>
    /\ now < status.ApprovalDeadline

C29_AddItemStep ==
    (C29_OnlyItemsPending /\ readyBranch' = NoBranch)
    => /\ status' = [status EXCEPT !.Items = (@ \o <<readyBranch.payload>>) \o sigAddItem]
       /\ UNCHANGED <<calls, fut, ret, pc, stageLog, sigApprove, sigCancel>>
       /\ sigAddItem' = <<>>

C29_AddItemOnlyChangesItems ==
    /\ [](pc = "select" /\ readyBranch.kind = "add-item"
           => /\ RunBranch(status, readyBranch)
                   = [status EXCEPT !.Items = Append(@, readyBranch.payload)]
              /\ LoopCondition(RunBranch(status, readyBranch)))
    /\ [][C29_AddItemStep]_vars

C29_Witness ==
    /\ pc = "select"
    /\ readyBranch = NoBranch
    /\ Len(status.Items) = 3
    /\ status.Stage = "awaiting-approval"
    /\ now > 0

(* C30: approvalDeadline is assigned in the step that enters               *)
(* awaiting-approval, as the time of that step plus the approval window,   *)
(* and in no other step; the timer the blocked wait is armed with always   *)
(* fires at that instant, however many add-line-item signals were          *)
(* processed, and the timeout cancels no earlier.                          *)
C30_DeadlineStep ==
    /\ Len(stageLog') < 4 => status'.ApprovalDeadline = 0
    /\ (Len(stageLog) < 4 /\ Len(stageLog') >= 4)
         => status'.ApprovalDeadline = now + ApprovalWindow
    /\ Len(stageLog) >= 4 => status'.ApprovalDeadline = status.ApprovalDeadline

C31_FailedLookups == {op \in Lookups : fut[op].st = "failed"}

C31_FailFastStep ==
    (/\ version # DefaultVersion
     /\ pc \in {"enrich-inventory", "enrich-customer", "enrich-recs"}
     /\ C31_FailedLookups # {}
     /\ pc' # pc)
    => /\ ret'.done
       /\ \E op \in C31_FailedLookups : ret'.err = ErrorOf(op)

C31_FailFast == [][C31_FailFastStep]_vars

(* C32: a run that returned an error or ended cancelled has a non-empty    *)
(* lastError.                                                              *)
C32_LastErrorSet ==
    (ret.done /\ (ret.err # NoError \/ status.Cancelled)) => status.LastError # ""

(* C33: with every attempt of an operation ending, the worker running the  *)
(* workflow, time passing and the timer firing, the approval wait is       *)
(* always left again and the run returns: completed, cancelled or with an  *)
(* error.                                                                  *)
C33_EventuallyReturns ==
    /\ <>ret.done
    /\ (pc = "select") ~> (pc # "select" /\ Decided)
    /\ [](ret.done => \/ status.Stage = "completed" /\ ret.err = NoError
                      \/ status.Stage = "cancelled" /\ ret.err = NoError
                      \/ ret.err # NoError)

C33_Witness ==
    /\ ret.done
    /\ status.Stage = "completed"
    /\ Len(status.Items) = 3
    /\ now > 0

(* C34: the cancellation email is invoked only in a cancelled run, once,   *)
(* after ReleaseStock has finished, with the recorded reason; a cancelled  *)
(* run returns success with stage cancelled once the email has finished,   *)
(* whether it failed or not.                                               *)
C34_CancellationEmail ==
    /\ Called("SendCancellationEmail")
         => /\ status.Cancelled
            /\ CallCount("SendCancellationEmail") = 1
            /\ Resolved("ReleaseStock")
            /\ FirstCall("ReleaseStock") < FirstCall("SendCancellationEmail")
            /\ emailArgs = status.LastError
            /\ C3_CancelReason
    /\ (ret.done /\ status.Cancelled)
         => /\ CallCount("SendCancellationEmail") = 1
            /\ Resolved("SendCancellationEmail")
            /\ ret.err = NoError
            /\ ret.result = CancelledResult
            /\ status.Stage = "cancelled"

C34_Witness ==
    /\ ret.done
    /\ status.Cancelled
    /\ fut["SendCancellationEmail"].st = "failed"
    /\ emailArgs = "cancelled: user request"

(* C35: a run that was sent a cancel-order signal after the payment was    *)
(* charged does not end completed: RefundPayment and ReleaseStock are      *)
(* invoked.                                                                *)
C35_CancelAfterCharge ==
    \E k \in 1..Len(sent) :
       /\ sent[k].kind = "cancel"
       /\ sent[k].phase = "after"
       /\ sent[k].charged

C35_LateCancelCompensates ==
    (ret.done /\ C35_CancelAfterCharge)
    => /\ status.Stage # "completed"
       /\ Called("RefundPayment")
       /\ Called("ReleaseStock")

(* C36: every line item in items has a positive quantity.                  *)
C36_QuantitiesPositive ==
    \A k \in 1..Len(status.Items) : status.Items[k].Quantity > 0

(* C37: a signal sent before the approval wait has no effect before the    *)
(* wait is entered and is processed there: when the first decision signal  *)
(* is a cancel-order sent early, the reservation is still made and the run *)
(* ends cancelled with exactly one ReleaseStock; when it is an             *)
(* approve-payment sent early, the payment is invoked as soon as the wait  *)
(* is entered.                                                             *)
C37_SentEarly(kind) ==
    /\ DecisionsSent # <<>>
    /\ DecisionsSent[1].kind = kind
    /\ DecisionsSent[1].phase = "before"

C37_EarlySignalsProcessedAtEntry ==
    /\ Len(stageLog) < 4
         => /\ ~Decided
            /\ status.Items = initialItems
            /\ ~Called("ReleaseStock")
            /\ ~Called("ProcessPayment")
    /\ (C37_SentEarly("cancel") /\ ret.done /\ status.Reserved)
         => status.Cancelled /\ CallCount("ReleaseStock") = 1
    /\ (C37_SentEarly("approve") /\ Len(stageLog) >= 4)
         => status.PaymentApproved /\ Called("ProcessPayment")

(* C38: when ProcessPayment has been invoked, every line item of items was *)
(* in the argument of the ReserveStock invocation that succeeded.          *)
C38_ChargedItemsReserved ==
    Called("ProcessPayment")
    => /\ fut["ReserveStock"].st = "ok"
       /\ \A k \in 1..Len(status.Items) :
             \E j \in 1..Len(reserveArgs) : reserveArgs[j] = status.Items[k]

====
